---- MODULE Spec2Model ----
(***************************************************************************)
(* Model of the run-management service of src/main.py: single-run          *)
(* submission (run_task), batch submission with background units           *)
(* (run_batch / process_batch), and the read-only queries (query_history,  *)
(* list_all_runs) over the "runs" table.                                   *)
(*                                                                         *)
(* Scheduling.  run_task, run_batch and the queries are plain `def`        *)
(* handlers, so the framework runs each request on a pool thread: requests *)
(* interleave freely.  The background tasks added by run_batch run after   *)
(* the response of that request has been built and sent, one after the     *)
(* other in the order of add_task; units of different batches interleave.  *)
(* The engine (MedicalCoderSwarm) is opaque: a call returns some output    *)
(* or raises.                                                              *)
(*                                                                         *)
(* Workload.  Any number of run_task requests (up to MaxRuns run attempts  *)
(* in all) run beside one run_batch request, whose list of cases may be    *)
(* empty.  Batches share nothing but the table and uuid4, so for a batch   *)
(* the units of another batch are further writers, as the run_task         *)
(* requests are.  One query request is answered at any point of the        *)
(* submissions; a query writes nothing that a later query reads.           *)
(***************************************************************************)
EXTENDS Naturals, Sequences, FiniteSets, TLC

\* ------------------------------------------------------------------ bounds

\* Total number of run attempts (single submissions plus batch cases).
MaxRuns == 3

\* ------------------------------------------------------------- input values

\* Caller-supplied patient ids (PatientCase.patient_id: any str, also "").
PatientIds == {"", "p1"}
\* The result snapshot swarm.to_dict() of the engine call of run attempt t.
\* The service stores and returns the document and never looks into it, so
\* each call's document is a token of its own.
Output(t) == "output-" \o ToString(t)
\* A local variable that has not been assigned yet.
Unbound == "<unbound>"
\* Optional[str]: None is <<>>, a given string s is <<s>>.
None == <<>>
Some(s) == <<s>>

VARIABLES
    runs,      \* the "runs" table: rows in insertion order
    tasks,     \* every run attempt: a run_task request or a process_batch unit
    batches,   \* every run_batch request
    issued,    \* number of uuid4() calls made so far
    collide,   \* whether uuid4 may repeat a value it has returned before
    reply      \* the HTTP response of the latest query request

vars == <<runs, tasks, batches, issued, collide, reply>>

\* ------------------------------------------------------------------- store

\* RunRecord row.  id is the autoincrement primary key.
RunRecord(id, run_id, patient_id, output) ==
    [id |-> id, run_id |-> run_id, patient_id |-> patient_id, output |-> output]

\* Mutant: the table has no uniqueness constraint on run_id.
ConflictsNever(table, run_id) == FALSE

\* Mutant: the constraint is checked against the latest row only.
ConflictsWithLastRow(table, run_id) ==
    table # <<>> /\ table[Len(table)].run_id = run_id

\* The unique=True constraint on run_id: a commit of a row whose run_id is
\* already in the table raises IntegrityError.
Conflicts(table, run_id) ==
    \E i \in DOMAIN table : table[i].run_id = run_id

\* Mutant: the write replaces the table's content instead of adding a row.
CommitOverwrites(table, run_id, patient_id, output) ==
    <<RunRecord(1, run_id, patient_id, output)>>

\* Mutant: the row is added to the session and never committed.
CommitForgotten(table, run_id, patient_id, output) == table

\* Mutant: the write updates the row the patient already has, if any.
CommitUpdatesPatient(table, run_id, patient_id, output) ==
    IF \E i \in DOMAIN table : table[i].patient_id = patient_id
    THEN [i \in DOMAIN table |->
             IF table[i].patient_id = patient_id
             THEN RunRecord(table[i].id, run_id, patient_id, output)
             ELSE table[i]]
    ELSE Append(table, RunRecord(Len(table) + 1, run_id, patient_id, output))

\* db.add(run_record); db.commit(): the table after a successful commit.
Commit(table, run_id, patient_id, output) ==
    Append(table, RunRecord(Len(table) + 1, run_id, patient_id, output))

\* str(uuid4()): the values the next call can return.  A version-4 UUID is
\* fresh unless the generator repeats itself (collide).
Uuid4 ==
    IF collide THEN {ToString(n) : n \in 1..(issued + 1)}
    ELSE {ToString(issued + 1)}

\* SessionLocal() of get_db: one session per request, named by the request.
SessionOf(handler, n) == <<handler, n>>

\* The JSON object the queries build from a row.
RecordJson(row) ==
    [run_id |-> row.run_id, patient_id |-> row.patient_id, output |-> row.output]

RowsJson(rows) == [i \in DOMAIN rows |-> RecordJson(rows[i])]

\* ------------------------------------------------------------- run_task

\* POST /run/ up to the engine call: the session is opened, run_id drawn.
RunTask(patient_id, run_id) ==
    /\ Len(tasks) < MaxRuns
    /\ tasks' = Append(tasks,
          [kind |-> "single", batch |-> 0, pc |-> "engine",
           patient_id |-> patient_id, run_id |-> run_id, output |-> Unbound,
           status |-> 0, error |-> "none", calls |-> 0,
           db |-> SessionOf("run_task", Len(tasks) + 1),
           response |-> None])
    /\ issued' = issued + 1
    /\ UNCHANGED <<runs, batches, collide, reply>>

\* Mutant: the engine's exception is swallowed and the handler goes on to
\* persist what it has.
RunTaskEngineFailedGoesOn(t) ==
    [t EXCEPT !.pc = "save", !.calls = @ + 1, !.error = "engine"]

\* Mutant: the engine call is tried again after it raised.
RunTaskEngineFailedRetries(t) ==
    [t EXCEPT !.pc = "engine", !.calls = @ + 1, !.error = "engine"]

\* The task after swarm.run raised: except -> HTTPException(500).
RunTaskEngineFailed(t) ==
    [t EXCEPT !.pc = "done", !.calls = @ + 1, !.status = 500,
              !.error = "engine"]

\* The task after swarm.run and swarm.to_dict() returned output o.
RunTaskEngineReturned(t, o) ==
    [t EXCEPT !.pc = "save", !.calls = @ + 1, !.output = o]

\* swarm.run(...) and swarm.to_dict() of a run_task request.
RunTaskEngine(t) ==
    /\ t \in DOMAIN tasks
    /\ tasks[t].kind = "single"
    /\ tasks[t].pc = "engine"
    /\ \/ tasks' = [tasks EXCEPT ![t] = RunTaskEngineReturned(@, Output(t))]
       \/ tasks' = [tasks EXCEPT ![t] = RunTaskEngineFailed(@)]
    /\ UNCHANGED <<runs, batches, issued, collide, reply>>

\* The task after db.commit() raised IntegrityError: except -> 500.
RunTaskCommitFailed(t) ==
    [t EXCEPT !.pc = "done", !.status = 500, !.error = "conflict"]

\* Mutant: an error after the commit turns the answer into a 500.
RunTaskReturnedError(t) ==
    [t EXCEPT !.pc = "done", !.status = 500, !.error = "refresh"]

\* The task after return RunResponse(run_id=run_id, output=output).
RunTaskReturned(t) ==
    [t EXCEPT !.pc = "done", !.status = 200,
              !.response = Some([run_id |-> t.run_id, output |-> t.output])]

\* db.add, db.commit, db.refresh and the return of a run_task request.
RunTaskSave(t) ==
    /\ t \in DOMAIN tasks
    /\ tasks[t].kind = "single"
    /\ tasks[t].pc = "save"
    /\ IF Conflicts(runs, tasks[t].run_id)
       THEN /\ tasks' = [tasks EXCEPT ![t] = RunTaskCommitFailed(@)]
            /\ runs' = runs
       ELSE /\ runs' = Commit(runs, tasks[t].run_id, tasks[t].patient_id,
                              tasks[t].output)
            /\ tasks' = [tasks EXCEPT ![t] = RunTaskReturned(@)]
    /\ UNCHANGED <<batches, issued, collide, reply>>

\* ------------------------------------------------ run_batch / process_batch

\* Lists of at most n patient cases.
CaseLists(n) == UNION {[1..k -> PatientIds] : k \in 0..n}

\* background_tasks.add_task(process_batch, case): the scheduled unit of one
\* case.  process_batch closes over db and responses of the run_batch call.
ScheduledUnit(b, patient_id, db) ==
    [kind |-> "unit", batch |-> b, pc |-> "pending",
     patient_id |-> patient_id, run_id |-> Unbound, output |-> Unbound,
     status |-> 0, error |-> "none", calls |-> 0, db |-> db,
     response |-> None]

\* POST /run/batch/: responses = [], one add_task per case, return responses.
\* The framework serialises the returned list when the handler returns.
RunBatch(cases) ==
    /\ batches = <<>>
    /\ Len(tasks) + Len(cases) <= MaxRuns
    /\ LET b == Len(batches) + 1
           db == SessionOf("run_batch", b)
           responses == <<>>
       IN /\ batches' = Append(batches,
                 [cases |-> cases, responses |-> responses, db |-> db,
                  status |-> 200, response |-> responses])
          /\ tasks' = tasks \o
                 [i \in 1..Len(cases) |-> ScheduledUnit(b, cases[i], db)]
    /\ UNCHANGED <<runs, issued, collide, reply>>


\* Mutant: every unit is handed to the pool as soon as it is scheduled.
MayRunConcurrently(t) == TRUE

\* Mutant: process_batch lets the exception out, which ends the run of the
\* request's background tasks.
MayRunUntilFailure(t) ==
    \A u \in 1..(t - 1) :
        tasks[u].batch = tasks[t].batch =>
            tasks[u].pc = "done" /\ tasks[u].error = "none"

\* Background tasks of one request run one after the other, in the order of
\* add_task; process_batch catches every exception, so a unit that failed
\* does not keep the next one from running.
MayRun(t) ==
    \A u \in 1..(t - 1) :
        tasks[u].batch = tasks[t].batch => tasks[u].pc = "done"

\* Mutant: a unit that failed is retried from its save step, so it persists
\* what it has.
ProcessBatchFailedSaves(t, error) ==
    [t EXCEPT !.pc = "save", !.error = error]

\* Mutant: the append is in a finally clause and runs after an exception too.
ProcessBatchFailedAppends(t, error) ==
    [t EXCEPT !.pc = "append", !.error = error]

\* The unit after an exception: except -> logger.error, nothing else.
ProcessBatchFailed(t, error) ==
    [t EXCEPT !.pc = "done", !.error = error]

\* process_batch up to the end of the engine call: run_id drawn, then
\* swarm.run(...) and swarm.to_dict().
ProcessBatchEngine(t, run_id) ==
    /\ t \in DOMAIN tasks
    /\ tasks[t].kind = "unit"
    /\ tasks[t].pc = "pending"
    /\ MayRun(t)
    /\ \/ tasks' = [tasks EXCEPT ![t] =
                       [@ EXCEPT !.pc = "save", !.run_id = run_id,
                                 !.calls = @ + 1, !.output = Output(t)]]
       \/ tasks' = [tasks EXCEPT ![t] =
                       ProcessBatchFailed(
                           [@ EXCEPT !.run_id = run_id, !.calls = @ + 1],
                           "engine")]
    /\ issued' = issued + 1
    /\ UNCHANGED <<runs, batches, collide, reply>>

\* db.add, db.commit, db.refresh of a unit, through the db it closed over.
ProcessBatchSave(t) ==
    /\ t \in DOMAIN tasks
    /\ tasks[t].kind = "unit"
    /\ tasks[t].pc = "save"
    /\ IF Conflicts(runs, tasks[t].run_id)
       THEN /\ tasks' = [tasks EXCEPT ![t] =
                            ProcessBatchFailed(@, "conflict")]
            /\ runs' = runs
       ELSE /\ runs' = Commit(runs, tasks[t].run_id, tasks[t].patient_id,
                              tasks[t].output)
            /\ tasks' = [tasks EXCEPT ![t] = [@ EXCEPT !.pc = "append"]]
    /\ UNCHANGED <<batches, issued, collide, reply>>

\* Mutant: the response body is the live list, not its serialisation at
\* return.
AppendResponseAliased(batch, run_id, output) ==
    [batch EXCEPT !.responses =
                      Append(@, [run_id |-> run_id, output |-> output]),
                  !.response =
                      Append(@, [run_id |-> run_id, output |-> output])]

\* Mutant: the append works on a copy of the list taken when the unit was
\* scheduled, and writes the copy back.
AppendResponseOverwrites(batch, run_id, output) ==
    [batch EXCEPT !.responses = <<[run_id |-> run_id, output |-> output]>>]

\* responses.append(RunResponse(run_id=run_id, output=output)): the batch
\* after the append.  The response body was serialised when run_batch
\* returned and is not touched.
AppendResponse(batch, run_id, output) ==
    [batch EXCEPT !.responses =
        Append(@, [run_id |-> run_id, output |-> output])]

\* responses.append(...) of a unit, and the end of process_batch.
ProcessBatchAppend(t) ==
    /\ t \in DOMAIN tasks
    /\ tasks[t].kind = "unit"
    /\ tasks[t].pc = "append"
    /\ batches' = [batches EXCEPT ![tasks[t].batch] =
                      AppendResponse(@, tasks[t].run_id, tasks[t].output)]
    /\ tasks' = [tasks EXCEPT ![t] = [@ EXCEPT !.pc = "done"]]
    /\ UNCHANGED <<runs, issued, collide, reply>>

\* ------------------------------------------------------------------ queries

\* Python truthiness of an Optional[str]: None and "" are falsy.
Truthy(opt) == opt # None /\ opt[1] # ""

\* Mutant: the patient_id filter is looked at before the run_id filter.
QueryHistoryPatientFirst(table, run_id, patient_id) ==
    IF Truthy(patient_id)
    THEN LET results ==
                 SelectSeq(table, LAMBDA row : row.patient_id = patient_id[1])
         IN IF results # <<>>
            THEN [status |-> 200, kind |-> "array", detail |-> "",
                  body |-> [i \in DOMAIN results |-> RecordJson(results[i])]]
            ELSE [status |-> 404, kind |-> "error", body |-> <<>>,
                  detail |-> "No runs found for the given patient ID."]
    ELSE IF Truthy(run_id)
    THEN LET found == SelectSeq(table, LAMBDA row : row.run_id = run_id[1])
         IN IF found # <<>>
            THEN [status |-> 200, kind |-> "object", detail |-> "",
                  body |-> <<RecordJson(Head(found))>>]
            ELSE [status |-> 404, kind |-> "error", body |-> <<>>,
                  detail |-> "Run ID not found."]
    ELSE [status |-> 400, kind |-> "error", body |-> <<>>, detail |-> ""]

\* HTTP responses of the queries: a JSON object, a JSON array, or the
\* detail of an HTTPException.
JsonObject(row) ==
    [status |-> 200, kind |-> "object", body |-> <<RecordJson(row)>>,
     detail |-> ""]
JsonArray(rows) ==
    [status |-> 200, kind |-> "array", body |-> RowsJson(rows), detail |-> ""]
HttpError(status, detail) ==
    [status |-> status, kind |-> "error", body |-> <<>>, detail |-> detail]

\* Mutant: a query without a filter lists the whole table.
QueryHistoryListsByDefault(table, run_id, patient_id) ==
    IF Truthy(run_id)
    THEN LET found == SelectSeq(table, LAMBDA row : row.run_id = run_id[1])
         IN IF found # <<>>
            THEN JsonObject(Head(found))
            ELSE HttpError(404, "Run ID not found.")
    ELSE IF Truthy(patient_id)
    THEN LET results ==
                 SelectSeq(table, LAMBDA row : row.patient_id = patient_id[1])
         IN IF results # <<>>
            THEN JsonArray(results)
            ELSE HttpError(404, "No runs found for the given patient ID.")
    ELSE JsonArray(table)

\* The response of GET /history/ for RunQuery(run_id, patient_id) on a table.
QueryHistoryResponse(table, run_id, patient_id) ==
    IF Truthy(run_id)
    THEN LET found == SelectSeq(table, LAMBDA row : row.run_id = run_id[1])
         IN IF found # <<>>
            THEN JsonObject(Head(found))
            ELSE HttpError(404, "Run ID not found.")
    ELSE IF Truthy(patient_id)
    THEN LET results ==
                 SelectSeq(table, LAMBDA row : row.patient_id = patient_id[1])
         IN IF results # <<>>
            THEN JsonArray(results)
            ELSE HttpError(404, "No runs found for the given patient ID.")
    ELSE HttpError(400, "At least one query parameter (run_id or patient_id) must be provided.")

\* Mutant: a lookup by run_id takes the record it returns out of the table.
QueryHistoryConsumes(run_id, patient_id) ==
    /\ reply' = QueryHistoryResponse(runs, run_id, patient_id)
    /\ runs' = IF Truthy(run_id)
               THEN SelectSeq(runs, LAMBDA row : row.run_id # run_id[1])
               ELSE runs
    /\ UNCHANGED <<tasks, batches, issued, collide>>

\* GET /history/.
QueryHistory(run_id, patient_id) ==
    /\ reply' = QueryHistoryResponse(runs, run_id, patient_id)
    /\ UNCHANGED <<runs, tasks, batches, issued, collide>>

\* The response of GET /runs/ on a table.
ListAllRunsResponse(table) == JsonArray(table)

\* GET /runs/.
ListAllRuns ==
    /\ reply' = ListAllRunsResponse(runs)
    /\ UNCHANGED <<runs, tasks, batches, issued, collide>>

\* Query arguments: absent, empty, or a value.  The run ids are the first
\* one uuid4 issues and one that is never issued; the patient ids are the
\* ones that are submitted.
RunIdArgs == {None, Some(""), Some("1"), Some("does-not-exist")}
PatientIdArgs == {None} \cup {Some(p) : p \in PatientIds}

\* ------------------------------------------------------------------- specs

\* No query has been answered yet.
NoReply == [status |-> 0, kind |-> "none", body |-> <<>>, detail |-> ""]

Init ==
    /\ runs = <<>>
    /\ tasks = <<>>
    /\ batches = <<>>
    /\ issued = 0
    /\ collide = FALSE
    /\ reply = NoReply

\* The same service with a uuid4 that may repeat itself.
InitCollide ==
    /\ runs = <<>>
    /\ tasks = <<>>
    /\ batches = <<>>
    /\ issued = 0
    /\ collide = TRUE
    /\ reply = NoReply

\* A step of a background unit.
ProcessBatch ==
    \/ \E t \in 1..MaxRuns : \E r \in Uuid4 : ProcessBatchEngine(t, r)
    \/ \E t \in 1..MaxRuns : ProcessBatchSave(t)
    \/ \E t \in 1..MaxRuns : ProcessBatchAppend(t)

\* A step of a run_task or run_batch request.
Runs ==
    \/ \E p \in PatientIds : \E r \in Uuid4 : RunTask(p, r)
    \/ \E t \in 1..MaxRuns : RunTaskEngine(t)
    \/ \E t \in 1..MaxRuns : RunTaskSave(t)
    \/ \E cases \in CaseLists(MaxRuns) : RunBatch(cases)
    \/ ProcessBatch

\* The query request.  A query writes nothing but its own response, so the
\* states with a response are those that one query reaches at some point of
\* the submissions.
Queries ==
    /\ reply = NoReply
    /\ \/ \E r \in RunIdArgs : \E p \in PatientIdArgs : QueryHistory(r, p)
       \/ ListAllRuns

Next == Runs \/ Queries

\* The whole service.
Spec == Init /\ [][Next]_vars

\* The submissions alone: the queries change nothing the submissions read.
RunSpec == Init /\ [][Runs]_vars

\* The submissions with a uuid4 that may repeat itself.
CollideSpec == InitCollide /\ [][Runs]_vars

\* Background units run on pool threads: a unit that can take a step
\* eventually takes it.
FairSpec == RunSpec /\ WF_vars(ProcessBatch)

\* ------------------------------------------------------------- vocabulary

Singles == {t \in DOMAIN tasks : tasks[t].kind = "single"}
Units(b) == {t \in DOMAIN tasks : tasks[t].kind = "unit" /\ tasks[t].batch = b}

\* Indices of the rows that carry a run_id.
RowsOf(run_id) == {i \in DOMAIN runs : runs[i].run_id = run_id}

\* The run attempt's engine call has returned without error.
EngineCompleted(t) == tasks[t].calls > 0 /\ tasks[t].error # "engine"

\* The unit has gone through db.add / db.commit with its db.
Persisted(t) == tasks[t].kind = "unit" /\ tasks[t].pc \in {"append", "done"}
                    /\ tasks[t].error = "none"

\* ------------------------------------------------------------------ claims

\* C1: in every reachable state, also when uuid4 repeats a value, the run_id
\* values of the persisted records are pairwise distinct.
C1_RunIdsDistinct ==
    \A i, j \in DOMAIN runs : i # j => runs[i].run_id # runs[j].run_id

\* C1 witness: a single run and a batch unit are both persisted, and a third
\* attempt drew a run_id already in the table and was rejected.
C1_Witness ==
    /\ \E t \in Singles : tasks[t].status = 200
    /\ \E u \in DOMAIN tasks : Persisted(u)
    /\ \E c \in DOMAIN tasks : tasks[c].error = "conflict"
    /\ Len(runs) = 2

\* C2: a step in which the engine call of a run_task request fails ends the
\* request with 500 and leaves the table as it was; no record with the
\* run_id of such a request is ever in the table.
C2_EngineFailureNoPersistence ==
    [][\A t \in DOMAIN tasks' :
          (tasks'[t].kind = "single" /\ tasks'[t].error = "engine") =>
              /\ tasks'[t].pc = "done"
              /\ tasks'[t].status = 500
              /\ tasks'[t].response = None
              /\ \A i \in DOMAIN runs' : runs'[i].run_id # tasks'[t].run_id
              /\ (t \in DOMAIN tasks /\ tasks[t].error = "none"
                     => runs' = runs)]_vars

\* C2 witness: a run_task request has failed in the engine while the table
\* holds a record of another run.
C2_Witness ==
    /\ \E t \in Singles : tasks[t].error = "engine" /\ tasks[t].status = 500
    /\ Len(runs) >= 1

\* C3: a run_task request that has returned either returned 200 with
\* {run_id, output} and exactly one row carries that run_id, with that
\* output and the submitted patient_id, or returned 500 and no row carries
\* its run_id; before it returns there is no row of it; its engine is called
\* at most once.
C3_AllOrNothing ==
    \A t \in Singles :
        /\ tasks[t].calls <= 1
        /\ tasks[t].pc # "done" =>
              tasks[t].status = 0 /\ RowsOf(tasks[t].run_id) = {}
        /\ tasks[t].pc = "done" =>
              \/ /\ tasks[t].status = 200
                 /\ tasks[t].response =
                        Some([run_id |-> tasks[t].run_id,
                              output |-> tasks[t].output])
                 /\ Cardinality(RowsOf(tasks[t].run_id)) = 1
                 /\ \A i \in RowsOf(tasks[t].run_id) :
                        /\ runs[i].output = tasks[t].output
                        /\ runs[i].patient_id = tasks[t].patient_id
              \/ /\ tasks[t].status = 500
                 /\ tasks[t].response = None
                 /\ RowsOf(tasks[t].run_id) = {}

\* C3 witness: one run_task request has returned 200 and another 500.
C3_Witness ==
    /\ \E t \in Singles : tasks[t].pc = "done" /\ tasks[t].status = 200
    /\ \E t \in Singles : tasks[t].pc = "done" /\ tasks[t].status = 500

\* C4: once a run_task request has returned 200 with run_id r, a history
\* query by run_id = r, with any patient_id argument, finds the record, with
\* the patient_id that was submitted and the output that was returned,
\* whatever other requests have done since.
C4_RetrievableAfterReturn ==
    \A t \in Singles :
        tasks[t].status = 200 =>
            \A p \in PatientIdArgs :
                QueryHistoryResponse(runs, Some(tasks[t].run_id), p) =
                    [status |-> 200, kind |-> "object", detail |-> "",
                     body |-> <<[run_id |-> tasks[t].run_id,
                                 patient_id |-> tasks[t].patient_id,
                                 output |-> tasks[t].response[1].output]>>]

\* C4 witness: a run_task request returned 200, other runs were persisted
\* after it, and the latest history query answered with its record.
C4_Witness ==
    \E t \in Singles :
        /\ tasks[t].status = 200
        /\ \E i \in RowsOf(tasks[t].run_id) : i < Len(runs)
        /\ reply = QueryHistoryResponse(runs, Some(tasks[t].run_id), None)
        /\ reply.status = 200

\* C5: when no run is in flight, GET /runs/ returns as many records as there
\* are run attempts, single and batch, whose engine call returned without
\* error.
C5_ListCardinality ==
    (\A t \in DOMAIN tasks : tasks[t].pc = "done") =>
        Len(ListAllRunsResponse(runs).body) =
            Cardinality({t \in DOMAIN tasks : EngineCompleted(t)})

\* C5 witness: all attempts of a full workload are finished, single and
\* batch, some succeeded and some failed, and GET /runs/ was answered.
C5_Witness ==
    /\ Len(tasks) = MaxRuns
    /\ \A t \in DOMAIN tasks : tasks[t].pc = "done"
    /\ Singles # {} /\ Singles # DOMAIN tasks
    /\ \E t \in DOMAIN tasks : EngineCompleted(t)
    /\ \E t \in DOMAIN tasks : ~EngineCompleted(t)
    /\ reply = ListAllRunsResponse(runs)

\* C6: run_batch schedules one unit per case, in order, and answers 200 with
\* an empty array: when the response is built no unit of the batch has run,
\* and nothing a unit produces later appears in it.
C6_ResponseBeforeUnits ==
    [][\A b \in DOMAIN batches' :
          LET units == {t \in DOMAIN tasks' : tasks'[t].kind = "unit"
                                                /\ tasks'[t].batch = b}
              first == Len(tasks') + 1 - Cardinality(units)
          IN /\ batches'[b].status = 200
             /\ batches'[b].response = <<>>
             /\ Cardinality(units) = Len(batches'[b].cases)
             /\ b \notin DOMAIN batches =>
                   /\ units = first..Len(tasks')
                   /\ \A t \in units :
                         /\ tasks'[t].pc = "pending"
                         /\ tasks'[t].patient_id =
                                batches'[b].cases[t + 1 - first]]_vars

\* C6 witness: units of a batch of two cases have appended their results to
\* the collector, and the response of the batch is still the empty array.
C6_Witness ==
    \E b \in DOMAIN batches :
        /\ Len(batches[b].cases) >= 2
        /\ Len(batches[b].responses) >= 2
        /\ batches[b].response = <<>>

\* Rows written by the units of batch b.
BatchRows(b) ==
    {i \in DOMAIN runs : \E u \in Units(b) : runs[i].run_id = tasks[u].run_id}

\* Units of batch b whose engine call failed.
FailedUnits(b) == {u \in Units(b) : tasks[u].error = "engine"}

\* Every unit of batch b has finished; the table holds one record per case
\* whose engine call returned and none for a failed case; the response of
\* the batch is the 200 with the empty array.
BatchSettled(b) ==
    /\ \A u \in Units(b) : tasks[u].pc = "done"
    /\ Cardinality(BatchRows(b)) =
           Len(batches[b].cases) - Cardinality(FailedUnits(b))
    /\ \A u \in FailedUnits(b) : RowsOf(tasks[u].run_id) = {}
    /\ batches[b].status = 200
    /\ batches[b].response = <<>>

\* C7: with background units scheduled fairly, a batch of N cases of which F
\* fail in the engine eventually has exactly N - F records in the table, none
\* of a failed case, and its response shows no error.
C7_BatchEventuallySettled ==
    \A b \in 1..MaxRuns :
        (b \in DOMAIN batches) ~> (b \in DOMAIN batches /\ BatchSettled(b))

\* C7 witness: a batch of three cases in which the engine call of case 2
\* failed has settled with exactly two records.
C7_Witness ==
    \E b \in DOMAIN batches :
        /\ Len(batches[b].cases) = 3
        /\ BatchSettled(b)
        /\ \E t \in Units(b) :
              /\ Units(b) = {t, t + 1, t + 2}
              /\ FailedUnits(b) = {t + 1}
        /\ Cardinality(BatchRows(b)) = 2

\* C8: a unit whose engine call failed has no row in the table and no entry
\* in the collector, leaves the batch response a 200 with an empty array,
\* and the unit scheduled after it can run.
C8_FailedUnitContributesNothing ==
    \A t \in DOMAIN tasks :
        (tasks[t].kind = "unit" /\ tasks[t].error = "engine") =>
            LET b == tasks[t].batch
            IN /\ tasks[t].pc = "done"
               /\ RowsOf(tasks[t].run_id) = {}
               /\ \A i \in DOMAIN batches[b].responses :
                      batches[b].responses[i].run_id # tasks[t].run_id
               /\ batches[b].status = 200
               /\ batches[b].response = <<>>
               /\ \A u \in Units(b) :
                      (/\ u > t
                       /\ tasks[u].pc = "pending"
                       /\ \A v \in Units(b) : v < u => tasks[v].pc = "done")
                      => ENABLED (\E r \in Uuid4 : ProcessBatchEngine(u, r))

\* C8 witness: the first unit of a batch failed in the engine and a later
\* unit of the same batch has persisted its record and appended its result.
C8_Witness ==
    \E b \in DOMAIN batches : \E t, u \in Units(b) :
        /\ t < u
        /\ tasks[t].error = "engine"
        /\ tasks[u].pc = "done" /\ tasks[u].error = "none"
        /\ Len(batches[b].responses) >= 1

\* C9: every unit that has written to the store did so through a session of
\* its own: not the session of the run_batch request that scheduled it, and
\* not the session of another unit.
C9_OwnSession ==
    \A t \in DOMAIN tasks :
        Persisted(t) =>
            /\ tasks[t].db # batches[tasks[t].batch].db
            /\ \A u \in DOMAIN tasks :
                   (u # t /\ Persisted(u)) => tasks[u].db # tasks[t].db

\* The expected answer to a history query by run id rid on the table.
ExpectedByRunId(rid, response) ==
    IF RowsOf(rid) # {}
    THEN /\ Cardinality(RowsOf(rid)) = 1
         /\ \A i \in RowsOf(rid) :
                response = [status |-> 200, kind |-> "object", detail |-> "",
                            body |-> <<[run_id |-> rid,
                                        patient_id |-> runs[i].patient_id,
                                        output |-> runs[i].output]>>]
    ELSE response.status = 404

\* The run_id arguments that are given: those of RunIdArgs and the run_id
\* of every row of the table.
GivenRunIds ==
    (RunIdArgs \ {None}) \cup {Some(runs[i].run_id) : i \in DOMAIN runs}

\* C10 as stated: a history query with any run_id given returns the single
\* record with that run_id, or 404 when there is none, whatever patient_id
\* is given.
C10_RunIdLookup ==
    \A r \in GivenRunIds : \A p \in PatientIdArgs :
        ExpectedByRunId(r[1], QueryHistoryResponse(runs, r, p))

\* C10 amended: a history query with a non-empty run_id returns the single
\* record with that run_id, or 404 when there is none, whatever patient_id
\* is given; an empty run_id counts as no run_id (400 when no patient_id is
\* given either).
C10_NonEmptyRunIdLookup ==
    /\ \A r \in GivenRunIds \ {Some("")} : \A p \in PatientIdArgs :
           ExpectedByRunId(r[1], QueryHistoryResponse(runs, r, p))
    /\ \A p \in {None, Some("")} :
           QueryHistoryResponse(runs, Some(""), p).status = 400

\* C10 witness: the table holds a record of patient "p1", and the latest
\* query, by the run_id of a record of another patient and patient_id "p1",
\* answered with the record that has the run_id.
C10_Witness ==
    \E i, j \in DOMAIN runs :
        /\ runs[i].run_id = "1"
        /\ runs[i].patient_id # "p1"
        /\ runs[j].patient_id = "p1"
        /\ reply = QueryHistoryResponse(runs, Some("1"), Some("p1"))
        /\ reply.status = 200
        /\ reply.kind = "object"

\* The rows of the table that carry a patient_id, in table order.
RowsOfPatient(patient_id) ==
    SelectSeq(runs, LAMBDA row : row.patient_id = patient_id)

\* The expected answer to a history query by patient id pid alone.
ExpectedByPatientId(pid, response) ==
    IF RowsOfPatient(pid) # <<>>
    THEN /\ response.status = 200
         /\ response.kind = "array"
         /\ Len(response.body) = Len(RowsOfPatient(pid))
         /\ \A i \in DOMAIN response.body :
                response.body[i] =
                    [run_id |-> RowsOfPatient(pid)[i].run_id,
                     patient_id |-> pid,
                     output |-> RowsOfPatient(pid)[i].output]
         /\ \A i, j \in DOMAIN response.body :
                i # j => response.body[i].run_id # response.body[j].run_id
    ELSE response.status = 404

\* C11: a history query with only a patient_id given returns exactly the
\* records whose patient_id equals the one given, each with a run_id of its
\* own, and answers 404 when there is no such record.
C11_PatientLookup ==
    \A p \in PatientIdArgs \ {None} :
        ExpectedByPatientId(p[1], QueryHistoryResponse(runs, None, p))

\* C12: in every reachable state, whatever the table holds, a history query
\* that gives neither a run_id nor a patient_id is answered with the error
\* 400 and with no record.
C12_NoFilterIsBadRequest ==
    LET response == QueryHistoryResponse(runs, None, None)
    IN /\ response.status = 400
       /\ response.kind = "error"
       /\ response.body = <<>>

\* C12 witness: the table holds records of both patients, and the latest
\* query was answered with 400.
C12_Witness ==
    /\ \E i, j \in DOMAIN runs : runs[i].patient_id # runs[j].patient_id
    /\ reply.status = 400
    /\ reply = QueryHistoryResponse(runs, None, None)

\* The run attempt is past its db.commit().
PastCommit(task) == task.pc \in {"append", "done"}

\* C13: the table is append-only, also when uuid4 repeats a value.  Every
\* step keeps every row that is in the table as it is, in its place, and adds
\* at most one row; a row is added only by a run attempt that goes through
\* its commit in that step, and carries that attempt's run_id, patient_id and
\* output; an attempt that is past its commit never comes back to it.
C13_AppendOnly ==
    [][/\ Len(runs') \in {Len(runs), Len(runs) + 1}
       /\ \A i \in DOMAIN runs : i \in DOMAIN runs' /\ runs'[i] = runs[i]
       /\ Len(runs') = Len(runs) + 1 =>
              \E t \in DOMAIN tasks :
                  /\ tasks[t].pc = "save"
                  /\ PastCommit(tasks'[t])
                  /\ tasks'[t].error = "none"
                  /\ runs'[Len(runs')] =
                         RunRecord(Len(runs'), tasks[t].run_id,
                                   tasks[t].patient_id, tasks[t].output)
                  /\ \A u \in DOMAIN tasks \ {t} : tasks'[u] = tasks[u]
       /\ \A t \in DOMAIN tasks :
              PastCommit(tasks[t]) =>
                  t \in DOMAIN tasks' /\ PastCommit(tasks'[t])
      ]_vars

\* C13 witness: three run attempts, a run_task request among them and a
\* batch unit among them, have each written one row, two of them for the
\* same patient.
C13_Witness ==
    /\ Len(runs) = 3
    /\ \A i \in DOMAIN runs : runs[i].id = i
    /\ \E i, j \in DOMAIN runs : i # j /\ runs[i].patient_id = runs[j].patient_id
    /\ \E t \in Singles : tasks[t].pc = "done" /\ tasks[t].status = 200
    /\ \E u \in DOMAIN tasks : Persisted(u) /\ tasks[u].pc = "done"

\* The lifecycle state of a run attempt: Failed once it has ended with an
\* error, Completed once it is past its commit, Submitted until then.
RunStateOf(task) ==
    IF task.error # "none" THEN "Failed"
    ELSE IF PastCommit(task) THEN "Completed"
    ELSE "Submitted"

\* C14: with uuid4 fresh, after every step every run attempt is Completed
\* exactly when one row with its run_id is in the table, and Failed exactly
\* when its engine call raised, and then no row has its run_id; a Submitted
\* attempt has no row.  Completed and Failed are terminal: a step leaves the
\* state, the run_id, the output and the number of engine calls of such an
\* attempt as they are, and no attempt calls the engine more than once.
C14_Lifecycle ==
    [][\A t \in DOMAIN tasks' :
          LET task == tasks'[t]
              rows == {i \in DOMAIN runs' : runs'[i].run_id = task.run_id}
          IN /\ RunStateOf(task) = "Completed" <=> Cardinality(rows) = 1
             /\ RunStateOf(task) = "Failed" <=>
                    (task.error = "engine" /\ task.calls = 1 /\ rows = {})
             /\ RunStateOf(task) = "Submitted" => rows = {}
             /\ task.calls <= 1
             /\ (t \in DOMAIN tasks /\ RunStateOf(tasks[t]) # "Submitted") =>
                    /\ RunStateOf(task) = RunStateOf(tasks[t])
                    /\ task.run_id = tasks[t].run_id
                    /\ task.output = tasks[t].output
                    /\ task.calls = tasks[t].calls
      ]_vars

\* C14 witness: of three run attempts one is a Completed run_task request,
\* one a Failed batch unit and one a batch unit whose engine call has
\* returned and that is still Submitted.
C14_Witness ==
    /\ \E t \in Singles :
           RunStateOf(tasks[t]) = "Completed" /\ RowsOf(tasks[t].run_id) # {}
    /\ \E u \in DOMAIN tasks :
           /\ tasks[u].kind = "unit"
           /\ RunStateOf(tasks[u]) = "Failed"
           /\ tasks[u].pc = "done"
    /\ \E v \in DOMAIN tasks :
           /\ tasks[v].kind = "unit"
           /\ tasks[v].pc = "save"
           /\ RunStateOf(tasks[v]) = "Submitted"

\* C15: when uuid4 repeats a value, a run attempt that goes through its
\* commit while a row with its run_id is in the table ends with a conflict
\* error (500 and no response body for a run_task request, nothing added to
\* the collector for a unit); the step leaves the table as it was, so the row
\* keeps its patient_id and output; and after every step no two rows have the
\* same run_id.
C15_ConflictRejected ==
    [][/\ \A t \in DOMAIN tasks :
              (/\ tasks[t].pc = "save"
               /\ tasks'[t] # tasks[t]
               /\ RowsOf(tasks[t].run_id) # {}) =>
                  /\ runs' = runs
                  /\ batches' = batches
                  /\ tasks'[t].pc = "done"
                  /\ tasks'[t].error = "conflict"
                  /\ tasks[t].kind = "single" =>
                         tasks'[t].status = 500 /\ tasks'[t].response = None
       /\ \A i, j \in DOMAIN runs' :
              i # j => runs'[i].run_id # runs'[j].run_id
      ]_vars

\* C15 witness: two run_task requests were in flight with the same run_id
\* for different patients; the later one committed first, the earlier one was
\* rejected, and the one row with the run_id is the later one's.
C15_Witness ==
    \E c, w \in Singles :
        /\ c < w
        /\ tasks[c].run_id = tasks[w].run_id
        /\ tasks[c].patient_id # tasks[w].patient_id
        /\ tasks[c].error = "conflict" /\ tasks[c].status = 500
        /\ tasks[w].status = 200
        /\ \E i \in DOMAIN runs :
               /\ RowsOf(tasks[w].run_id) = {i}
               /\ runs[i].patient_id = tasks[w].patient_id
               /\ runs[i].output = tasks[w].output

\* C16 as stated: no unit of a batch has to wait for another unit of the
\* batch to finish: in every reachable state every unit that has not started
\* can start, so that the units can complete in any order.
C16_NoUnitWaits ==
    \A u \in DOMAIN tasks :
        (tasks[u].kind = "unit" /\ tasks[u].pc = "pending") =>
            ENABLED (\E r \in Uuid4 : ProcessBatchEngine(u, r))

\* C16 amended: the units of a batch run one after the other in the order of
\* the cases: in every reachable state a unit that has started has every
\* earlier unit of its batch finished.  Only requests outside the batch run
\* beside a unit.
C16_UnitsInOrder ==
    \A u, v \in DOMAIN tasks :
        (/\ tasks[u].kind = "unit" /\ tasks[v].kind = "unit"
         /\ tasks[u].batch = tasks[v].batch
         /\ u < v
         /\ tasks[v].pc # "pending") => tasks[u].pc = "done"

\* C16 witness: a run_task request ran between the two units of a batch: its
\* row lies between the row of the first unit and the row of the second.
C16_Witness ==
    \E u, v \in DOMAIN tasks : \E t \in Singles :
        /\ tasks[u].kind = "unit" /\ tasks[v].kind = "unit"
        /\ tasks[u].batch = tasks[v].batch
        /\ u < v
        /\ Len(runs) = 3
        /\ runs[1].run_id = tasks[u].run_id
        /\ runs[2].run_id = tasks[t].run_id
        /\ runs[3].run_id = tasks[v].run_id

\* The units of batch b that are at their responses.append.
Appending(b) == {u \in Units(b) : tasks[u].pc = "append"}

\* The units of batch b that have gone through their responses.append.
Appended(b) ==
    {u \in Units(b) : tasks[u].pc = "done" /\ tasks[u].error = "none"}

\* C17: in every reachable state at most one unit of a batch is at its
\* append to the batch's collector, and no appended result is lost: the
\* collector holds the result of every unit that has appended, and nothing
\* else.
C17_CollectorExclusive ==
    \A b \in DOMAIN batches :
        /\ Cardinality(Appending(b)) <= 1
        /\ Len(batches[b].responses) = Cardinality(Appended(b))
        /\ \A u \in Appended(b) :
               \E i \in DOMAIN batches[b].responses :
                   batches[b].responses[i] =
                       [run_id |-> tasks[u].run_id, output |-> tasks[u].output]

\* C17 witness: two units of a batch of three have appended their results,
\* and the third is at its append.
C17_Witness ==
    \E b \in DOMAIN batches :
        /\ Len(batches[b].cases) = 3
        /\ Cardinality(Appended(b)) = 2
        /\ Len(batches[b].responses) = 2
        /\ Cardinality(Appending(b)) = 1

\* C18: the queries are read-only.  A step that answers a query, whatever
\* the answer (records, 404 or 400), leaves the table, the run attempts and
\* the batches as they are; and the answer of a list-all query is 200 with
\* every row of the table, in table order, which is the empty list on an
\* empty table.
C18_QueriesReadOnly ==
    [][/\ (Queries \/ reply' # reply) =>
              /\ runs' = runs
              /\ tasks' = tasks
              /\ batches' = batches
              /\ issued' = issued
       /\ ListAllRuns =>
              /\ reply'.status = 200
              /\ reply'.kind = "array"
              /\ Len(reply'.body) = Len(runs)
              /\ \A i \in DOMAIN runs :
                     reply'.body[i] = [run_id |-> runs[i].run_id,
                                       patient_id |-> runs[i].patient_id,
                                       output |-> runs[i].output]
      ]_vars

\* C18 witness: the latest query listed the three rows of the table.
C18_Witness ==
    /\ Len(runs) = 3
    /\ reply.status = 200
    /\ reply.kind = "array"
    /\ Len(reply.body) = 3
    /\ \A i \in DOMAIN runs : reply.body[i].run_id = runs[i].run_id

\* C19: in every reachable state, also when uuid4 repeats a value, every
\* entry of a batch's collector has a row in the table with the same run_id
\* and the same output, and is the result of a unit of the batch that is past
\* its commit; no two entries have the same run_id, and the collector has no
\* more entries than the batch has cases.
C19_CollectorEntriesCommitted ==
    \A b \in DOMAIN batches :
        LET entries == batches[b].responses
        IN /\ Len(entries) <= Len(batches[b].cases)
           /\ \A i, j \in DOMAIN entries :
                  i # j => entries[i].run_id # entries[j].run_id
           /\ \A i \in DOMAIN entries :
                  /\ \E k \in DOMAIN runs :
                         /\ runs[k].run_id = entries[i].run_id
                         /\ runs[k].output = entries[i].output
                  /\ \E u \in Units(b) :
                         /\ PastCommit(tasks[u])
                         /\ tasks[u].error = "none"
                         /\ tasks[u].run_id = entries[i].run_id
                         /\ tasks[u].output = entries[i].output

\* C19 witness: the three units of a batch have ended; one was rejected for
\* a run_id already in the table, and the collector holds the results of the
\* two others, each with its row.
C19_Witness ==
    \E b \in DOMAIN batches :
        /\ Len(batches[b].cases) = 3
        /\ \A u \in Units(b) : tasks[u].pc = "done"
        /\ \E u \in Units(b) : tasks[u].error = "conflict"
        /\ Len(batches[b].responses) = 2
        /\ Len(runs) = 2

====
